---- MODULE Spec2Model ----
(***************************************************************************)
(* Thread-rotation bot of src/threadlocker.js, second variant (lines 234   *)
(* to 577): ThreadCache, RateLimit, withRetry, getThreadsWithCache,        *)
(* processThread, processThreadsBatch and the ThreadCreate handler.        *)
(*                                                                         *)
(* The handler is an async function: one action of the model is the        *)
(* completion of one awaited external call or timer, followed by all the   *)
(* synchronous code that runs until the next await on a call or a timer.   *)
(***************************************************************************)
EXTENDS Integers, Sequences, FiniteSets, TLC

\* ---------------------------------------------------------------- constants
CACHE_DURATION == 5 * 60 * 1000
RATE_LIMIT_MAX_OPS == 5
RATE_LIMIT_WINDOW == 10000
RETRY_MAX_ATTEMPTS == 2
BATCH_SIZE == 5
OPERATION_DELAY == 100
delays == <<1000, 2000, 4000>>

\* process.env.CHANNEL_ID, and the id of any other parent channel
CHANNEL_ID == "monitored"
OTHER_CHANNEL == "other"
Channels == {CHANNEL_ID, OTHER_CHANNEL}

\* ---------------------------------------------------------------- bounds
\* threads that exist in the monitored channel before the first event
NumPre == 2
\* the handler invocations: one per thread-creation event, at most two events
Handlers == {1, 2}
\* the times that time passes between the calls of a component used on its own
MaxSteps == 3
\* the calls of canProceed, when RateLimit is used on its own
MaxCalls == 11
\* the calls of canProceed of the callers of two thread ids
MaxAsks == 4
\* the times that those callers pause
MaxPauses == 1
\* the largest maxRetries, when withRetry is used on its own
MaxRetries == 5
MaxThreads == NumPre + Cardinality(Handlers)
ThreadIds == 1..MaxThreads

VARIABLES
    now,          \* Date.now()
    live,         \* whether a thread object read from a list shows later edits
    world,        \* the platform's threads: world[id] = [parent, createdAt, archived, locked]
    cache,        \* ThreadCache.cache: channel id -> [present, timestamp, threads]
    operations,   \* RateLimit.operations: thread id -> timestamps (<<>> = no key)
    queue,        \* RateLimit.queue: thread id -> suspended resolvers (<<>> = no key)
    timers,       \* pending setTimeout callbacks of RateLimit.canProceed, in creation order
    handler,      \* one ThreadCreate handler invocation per event
    budget,       \* how many more external calls may fail
    probe         \* a caller of ThreadCache, RateLimit or withRetry on its own:
                  \* what it has called and what came back

vars == <<now, live, world, cache, operations, queue, timers, handler, budget, probe>>

\* ---------------------------------------------------------------- helpers
Last(s) == s[Len(s)]
Min(S) == CHOOSE x \in S : \A y \in S : x <= y
Ids(s) == {s[k].id : k \in 1..Len(s)}

\* ---------------------------------------------------------------- ThreadCache
NoEntry == [present |-> FALSE, timestamp |-> 0, threads |-> <<>>]

\* the test of ThreadCache.get and ThreadCache.cleanup for dropping an entry
Expired(data, t) == t - data.timestamp > CACHE_DURATION

\* mutant: set stores nothing
CacheSetSkipped(c, channelId, threads, t) == c

\* ThreadCache.set(channelId, threads)
CacheSet(c, channelId, threads, t) ==
    [c EXCEPT ![channelId] = [present |-> TRUE, timestamp |-> t, threads |-> threads]]

\* mutant: get leaves the entry in the map
CacheGetKeeps(c, channelId, t) ==
    IF ~c[channelId].present \/ t - c[channelId].timestamp > CACHE_DURATION
    THEN [hit |-> FALSE, threads |-> <<>>, cache |-> c]
    ELSE [hit |-> TRUE, threads |-> c[channelId].threads, cache |-> c]

\* the test of ThreadCache.get for returning null
CacheGetMiss(c, channelId, t) ==
    \/ ~c[channelId].present
    \/ Expired(c[channelId], t)

\* ThreadCache.get(channelId): the result (hit, threads) and the map afterwards
CacheGet(c, channelId, t) ==
    IF CacheGetMiss(c, channelId, t)
    THEN [hit |-> FALSE, threads |-> <<>>, cache |-> [c EXCEPT ![channelId] = NoEntry]]
    ELSE [hit |-> TRUE, threads |-> c[channelId].threads, cache |-> c]

\* ThreadCache.cleanup()
CacheCleanup(c, t) ==
    [ch \in Channels |-> IF c[ch].present /\ Expired(c[ch], t) THEN NoEntry ELSE c[ch]]

\* ---------------------------------------------------------------- RateLimit
\* recentOps.filter(time => now - time < this.timeWindow)
ValidOps(ops, t) == SelectSeq(ops, LAMBDA time : t - time < RATE_LIMIT_WINDOW)

\* mutant: a caller waits only when there are more than maxOperations
MustWaitLate(validOps) == Len(validOps) > RATE_LIMIT_MAX_OPS

\* the admission test of canProceed
MustWait(validOps) == Len(validOps) >= RATE_LIMIT_MAX_OPS

\* mutant: a suspended caller gets no timer
CanProceedNoTimer(ops, q, tm, threadId, caller, t) ==
    LET validOps == SelectSeq(ops[threadId], LAMBDA time : t - time < RATE_LIMIT_WINDOW) IN
    IF Len(validOps) >= RATE_LIMIT_MAX_OPS
    THEN [admit |-> FALSE, ops |-> ops,
          q |-> [q EXCEPT ![threadId] = Append(@, caller)], tm |-> tm]
    ELSE [admit |-> TRUE, ops |-> [ops EXCEPT ![threadId] = Append(validOps, t)],
          q |-> q, tm |-> tm]

\* RateLimit.canProceed(threadId), called by `caller` at time t: either the
\* caller is admitted at once (a timestamp is recorded), or its resolver is
\* queued and a timer of timeWindow is set.
CanProceed(ops, q, tm, threadId, caller, t) ==
    LET validOps == ValidOps(ops[threadId], t) IN
    IF MustWait(validOps)
    THEN [admit |-> FALSE,
          ops |-> ops,
          q |-> [q EXCEPT ![threadId] = Append(@, caller)],
          tm |-> Append(tm, [thread |-> threadId, due |-> t + RATE_LIMIT_WINDOW])]
    ELSE [admit |-> TRUE,
          ops |-> [ops EXCEPT ![threadId] = Append(validOps, t)],
          q |-> q,
          tm |-> tm]

\* mutant: the callback takes the first resolver and does not call it
TimerCallbackDrops(q, threadId) ==
    [released |-> <<>>, q |-> [q EXCEPT ![threadId] = IF @ = <<>> THEN @ ELSE Tail(@)]]

\* mutant: the callback takes the resolver queued last
TimerCallbackLast(q, threadId) ==
    IF q[threadId] = <<>>
    THEN [released |-> <<>>, q |-> q]
    ELSE [released |-> <<q[threadId][Len(q[threadId])]>>,
          q |-> [q EXCEPT ![threadId] = SubSeq(@, 1, Len(@) - 1)]]

\* the setTimeout callback of canProceed for `threadId`: the first queued
\* resolver, if any, is called with true
TimerCallback(q, threadId) ==
    LET callbacks == q[threadId] IN
    IF callbacks = <<>>
    THEN [released |-> <<>>, q |-> q]
    ELSE [released |-> <<Head(callbacks)>>, q |-> [q EXCEPT ![threadId] = Tail(callbacks)]]

\* RateLimit.cleanup()
RateCleanup(ops, t) == [id \in DOMAIN ops |-> ValidOps(ops[id], t)]

\* ---------------------------------------------------------------- withRetry
\* mutant: every wait is the first value of the schedule
DelayFirst(attempt) == delays[1]

\* delays[attempt - 1] || delays[delays.length - 1]
Delay(attempt) == IF attempt <= Len(delays) THEN delays[attempt] ELSE delays[Len(delays)]

\* if (attempt === maxRetries) break
LastAttempt(attempt, maxRetries) == attempt = maxRetries

\* mutant: the error after the loop does not carry the last error
ExhaustedNoCause(maxRetries, lastError) ==
    [exhausted |-> TRUE, attempts |-> maxRetries,
     last |-> [op |-> "none", thread |-> 0, attempt |-> 0]]

\* new Error(`Operation failed after ${maxRetries} attempts: ${lastError.message}`)
NoError == [op |-> "none", thread |-> 0, attempt |-> 0]
NotLogged == [exhausted |-> FALSE, attempts |-> 0, last |-> NoError]
ExhaustedError(maxRetries, lastError) ==
    [exhausted |-> TRUE, attempts |-> maxRetries, last |-> lastError]

\* the catch block of withRetry for the error of attempt `attempt`: lastError
\* is set; after the last attempt the loop ends and the error after the loop
\* is thrown, else the next attempt follows after `delay`
RetryCatch(attempt, maxRetries, error) ==
    [lastError |-> error,
     throws |-> LastAttempt(attempt, maxRetries),
     thrown |-> ExhaustedError(maxRetries, error),
     delay |-> Delay(attempt)]

\* ---------------------------------------------------------------- threads
\* the thread object a fetch returns for world thread `id`
Snapshot(W, id) ==
    [id |-> id, createdAt |-> W[id].createdAt,
     archived |-> W[id].archived, locked |-> W[id].locked]

\* thread.archived / thread.locked read from a thread object of a list: the
\* platform library may or may not have patched the object after an edit
Field(W, th, f) == IF live THEN W[th.id][f] ELSE th[f]

\* channel.threads.fetchActive() and channel.threads.fetchArchived()
FetchActive(W) ==
    SelectSeq([id \in 1..Len(W) |-> Snapshot(W, id)],
              LAMBDA th : W[th.id].parent = CHANNEL_ID /\ ~W[th.id].archived)
FetchArchived(W) ==
    SelectSeq([id \in 1..Len(W) |-> Snapshot(W, id)],
              LAMBDA th : W[th.id].parent = CHANNEL_ID /\ W[th.id].archived)

\* mutant: only the active threads are kept
StoredActiveOnly(activeThreads, archivedThreads) == activeThreads

\* [...activeThreads.threads.values(), ...archivedThreads.threads.values()]
StoredList(activeThreads, archivedThreads) == activeThreads \o archivedThreads

\* .sort((a, b) => b.createdAt - a.createdAt): a stable sort, newest first
SortInsert(sorted, x) ==
    LET k == Cardinality({n \in 1..Len(sorted) : sorted[n].createdAt >= x.createdAt})
    IN SubSeq(sorted, 1, k) \o <<x>> \o SubSeq(sorted, k + 1, Len(sorted))
RECURSIVE SortDesc(_)
SortDesc(s) ==
    IF s = <<>> THEN <<>>
    ELSE SortInsert(SortDesc(SubSeq(s, 1, Len(s) - 1)), Last(s))

\* mutant: the unlocked threads are not sorted
UnlockedUnsorted(W, allThreads) ==
    SelectSeq(allThreads, LAMBDA th : ~Field(W, th, "locked"))

\* mutant: the locked threads are not filtered out
AllThreadsSorted(W, allThreads) == SortDesc(allThreads)

\* allThreads.filter(t => !t.locked).sort(...)
UnlockedThreads(W, allThreads) ==
    SortDesc(SelectSeq(allThreads, LAMBDA th : ~Field(W, th, "locked")))

\* mutant: the sort is applied to allThreads itself
AllThreadsSortedInPlace(W, allThreads) == SortDesc(allThreads)

\* allThreads, the array that the cache holds, after the handler's filter and
\* sort: filter returns a new array and sort sorts that one in place
AllThreadsAfter(W, allThreads) == allThreads

\* mutant: one unlocked thread is enough
OneUnlockedEnough(unlockedThreads) == Len(unlockedThreads) >= 1

\* the test of the handler for running processThreadsBatch
EnoughUnlocked(unlockedThreads) == Len(unlockedThreads) >= 2

\* the order in which processThreadsBatch visits the threads: batch by batch
\* (threads.slice(i, i + BATCH_SIZE)), each batch front to back
RECURSIVE BatchOrder(_)
BatchOrder(threads) ==
    IF Len(threads) <= BATCH_SIZE THEN threads
    ELSE SubSeq(threads, 1, BATCH_SIZE)
         \o BatchOrder(SubSeq(threads, BATCH_SIZE + 1, Len(threads)))

\* mutant: a thread already processed is not skipped
SkipTriggerOnly(id, newThreadId, processedThreads) == id = newThreadId

\* mutant: the newest thread is not skipped
SkipProcessedOnly(id, newThreadId, processedThreads) == id \in processedThreads

\* thread.id === newThreadId || processedThreads.has(thread.id)
SkipThread(id, newThreadId, processedThreads) ==
    id = newThreadId \/ id \in processedThreads

\* mutant: every thread but the trigger is given the message
EveryOtherSelected(secondLatestProcessed, id, newThreadId) == id # newThreadId

\* !secondLatestProcessed && thread.id !== newThreadId
IsSecondLatest(secondLatestProcessed, id, newThreadId) ==
    ~secondLatestProcessed /\ id # newThreadId

\* ---------------------------------------------------------------- handler state
IdleHandler ==
    [pc |-> "idle",                   \* the call or timer the handler awaits
     trigger |-> 0,                   \* thread.id of the event
     attempt |-> 0,                   \* withRetry: attempt
     lastError |-> NoError,           \* withRetry: lastError
     fetched |-> FALSE,               \* this attempt enumerated the threads (cache miss)
     allThreads |-> <<>>,             \* allThreads of the attempt
     threads |-> <<>>,                \* unlockedThreads of the attempt
     reconciled |-> FALSE,            \* this attempt has filtered and sorted its list
     batch |-> FALSE,                 \* processThreadsBatch was called in this attempt
     pos |-> 0,                       \* position in BatchOrder(threads)
     processedThreads |-> {},
     secondLatestProcessed |-> FALSE,
     isSecondLatest |-> FALSE,
     wake |-> 0,                      \* when the awaited setTimeout is due
     calls |-> <<>>,                  \* calls issued so far: [attempt, op, thread, res]
     logged |-> NotLogged,            \* the error the handler's catch block logged
     lastThreadId |-> 0,              \* the most-recent thread id the handler recorded
     outcome |-> "none"]              \* how the handler's promise settled

\* a call is issued and awaited
Issue(hr, op, id) ==
    [hr EXCEPT !.pc = op,
               !.calls = Append(@, [attempt |-> hr.attempt, op |-> op,
                                    thread |-> id, res |-> "pending"])]
\* also issued, without changing what is awaited
Also(hr, op, id) == [Issue(hr, op, id) EXCEPT !.pc = hr.pc]

\* the pending call `op` has completed with `res`
Complete(hr, op, res) ==
    LET k == CHOOSE n \in 1..Len(hr.calls) :
                 /\ hr.calls[n].op = op
                 /\ \A m \in (n + 1)..Len(hr.calls) : hr.calls[m].op # op
    IN [hr EXCEPT !.calls[k].res = res]

CurThread(hr) == BatchOrder(hr.threads)[hr.pos]

\* ---------------------------------------------------------------- handler code
\* mutant: the handler lets the error of withRetry through
HandlerRethrows(threw) == IF threw THEN "rejected" ELSE "resolved"

\* The ThreadCreate handler's promise: the catch block logs, nothing is rethrown
HandlerSettles(threw) == "resolved"

\* What the handler records as the most-recent thread id when it ends: the
\* handler of this variant assigns nothing after withRetry, in its catch or
\* in its finally block, so that what was recorded before stays. (The first
\* variant assigns thread.id after withRetry has returned, inside the try.)
RecordLast(hr, threw) == hr.lastThreadId

\* withRetry's operation returned: withRetry returns, the handler ends
AttemptOk(hr) ==
    [hr EXCEPT !.pc = "done", !.outcome = HandlerSettles(FALSE),
               !.lastThreadId = RecordLast(hr, FALSE)]

\* withRetry's operation threw `error` at time t
AttemptFailed(hr, error, t) ==
    LET c == RetryCatch(hr.attempt, RETRY_MAX_ATTEMPTS, error)
        hr1 == [hr EXCEPT !.lastError = c.lastError]
    IN IF c.throws
       THEN [hr1 EXCEPT !.pc = "done", !.logged = c.thrown,
                        !.outcome = HandlerSettles(TRUE),
                        !.lastThreadId = RecordLast(hr1, TRUE)]
       ELSE [hr1 EXCEPT !.pc = "retryDelay", !.wake = t + c.delay]

\* the error of a failed call of the current attempt
ErrorOf(hr, op, id) == [op |-> op, thread |-> id, attempt |-> hr.attempt]

\* mutant: the failure of a call on a thread is swallowed, the loop goes on
ProcessThreadSwallows(hr, error, t) ==
    [hr EXCEPT !.pc = "opDelay", !.wake = t + OPERATION_DELAY]

\* the catch block of processThread logs the error and rethrows it;
\* processThreadsBatch and the handler's operation do not catch, so that the
\* error is the one withRetry's operation threw
ProcessThreadCatch(hr, error, t) == AttemptFailed(hr, error, t)

\* one attempt starts: client.channels.fetch(CHANNEL_ID) is issued
StartAttempt(hr, n) ==
    Issue([hr EXCEPT !.attempt = n,
                     !.fetched = FALSE, !.allThreads = <<>>, !.threads = <<>>,
                     !.reconciled = FALSE, !.batch = FALSE, !.pos = 0, !.processedThreads = {},
                     !.secondLatestProcessed = FALSE, !.isSecondLatest = FALSE,
                     !.wake = 0],
          "fetchChannel", 0)

\* mutant: processThread does not unarchive
ProcessThreadNoUnarchive(W, hr, stage, t) ==
    LET thread == CurThread(hr) IN
    IF stage <= 2 /\ hr.isSecondLatest THEN Issue(hr, "send", thread.id)
    ELSE IF stage <= 3 /\ ~Field(W, thread, "locked") THEN Issue(hr, "setLocked", thread.id)
    ELSE [hr EXCEPT !.pc = "opDelay",
                    !.processedThreads = @ \cup {thread.id},
                    !.wake = t + OPERATION_DELAY]

\* processThread(thread, isSecondLatest) from its `stage`-th test on, reading
\* the thread in world W: 1 archived, 2 isSecondLatest, 3 locked. When nothing
\* is left to call, processThread returns, the thread is added to
\* processedThreads and the pacing timer is set.
ProcessThread(W, hr, stage, t) ==
    LET thread == CurThread(hr) IN
    IF stage <= 1 /\ Field(W, thread, "archived") THEN Issue(hr, "setArchived", thread.id)
    ELSE IF stage <= 2 /\ hr.isSecondLatest THEN Issue(hr, "send", thread.id)
    ELSE IF stage <= 3 /\ ~Field(W, thread, "locked") THEN Issue(hr, "setLocked", thread.id)
    ELSE [hr EXCEPT !.pc = "opDelay",
                    !.processedThreads = @ \cup {thread.id},
                    !.wake = t + OPERATION_DELAY]

\* canProceed(thread.id) resolved true for the current thread
Admitted(W, hr, t) ==
    LET isSecondLatest ==
            IsSecondLatest(hr.secondLatestProcessed, CurThread(hr).id, hr.trigger)
    IN ProcessThread(W,
                     [hr EXCEPT !.isSecondLatest = isSecondLatest,
                                !.secondLatestProcessed = @ \/ isSecondLatest],
                     1, t)

\* The loops of processThreadsBatch from position hr.pos on, for handler h:
\* skipped threads are passed over; for the first other thread canProceed is
\* called. M = [hr, ops, q, tm] is the handler and the rate limiter.
BatchLoop(W, M, h, t) ==
    LET hr == M.hr
        order == BatchOrder(hr.threads)
        rest == {k \in hr.pos..Len(order) :
                    ~SkipThread(order[k].id, hr.trigger, hr.processedThreads)}
    IN IF rest = {} THEN [M EXCEPT !.hr = AttemptOk(hr)]
       ELSE LET k == Min(rest)
                cp == CanProceed(M.ops, M.q, M.tm, order[k].id, h, t)
                hr1 == Issue([hr EXCEPT !.pos = k], "canProceed", order[k].id)
            IN IF cp.admit
               THEN [hr |-> Admitted(W, Complete(hr1, "canProceed", "ok"), t),
                     ops |-> cp.ops, q |-> cp.q, tm |-> cp.tm]
               ELSE [hr |-> hr1, ops |-> cp.ops, q |-> cp.q, tm |-> cp.tm]

\* the handler's operation once allThreads is there: filter, sort, and
\* processThreadsBatch if there are enough unlocked threads
Reconcile(W, M, h, allThreads, t) ==
    LET unlockedThreads == UnlockedThreads(W, allThreads)
        hr1 == [M.hr EXCEPT !.allThreads = allThreads, !.threads = unlockedThreads,
                            !.reconciled = TRUE]
    IN IF EnoughUnlocked(unlockedThreads)
       THEN BatchLoop(W, [M EXCEPT !.hr = [hr1 EXCEPT !.batch = TRUE, !.pos = 1]], h, t)
       ELSE [M EXCEPT !.hr = AttemptOk(hr1)]

Machine(h) == [hr |-> handler[h], ops |-> operations, q |-> queue, tm |-> timers]

\* the handler and the rate limiter become M
Become(h, M) ==
    /\ handler' = [handler EXCEPT ![h] = M.hr]
    /\ operations' = M.ops
    /\ queue' = M.q
    /\ timers' = M.tm

\* an external call may fail while the budget of failures lasts
Outcome(ok) == ok \/ budget > 0
Count(ok) == budget' = IF ok THEN budget ELSE budget - 1

\* ---------------------------------------------------------------- initial state
\* no component is used on its own
NoProbe == [unit |-> "none"]

\* creation times of the threads that exist at the start: in the order of
\* their ids, all before the start
PreTimes == {[id \in 1..NumPre |-> id - NumPre - 1]}

\* the threads that exist at the start, all in the monitored channel
Worlds ==
    {[id \in 1..NumPre |-> [parent |-> CHANNEL_ID, createdAt |-> f[id],
                            archived |-> ar[id], locked |-> lk[id]]] :
        f \in PreTimes, ar \in [1..NumPre -> BOOLEAN], lk \in [1..NumPre -> BOOLEAN]}

\* rate-limit records left by earlier events: none, or thread 1, still
\* unlocked, has used up its window a moment ago
SeededOps(W) ==
    {[id \in ThreadIds |-> <<>>]}
    \cup {[id \in ThreadIds |-> IF id = k THEN [n \in 1..RATE_LIMIT_MAX_OPS |-> 0 - 1]
                                ELSE <<>>] : k \in {j \in 1..1 : ~W[j].locked}}

\* the cache left by earlier events: no entry, or the list an earlier handler
\* enumerated a moment ago. The two requests of that enumeration are answered
\* at different moments: a thread the platform archived in between is in
\* both answers, so the list can hold it twice.
SeededCaches(W) ==
    {[ch \in Channels |-> NoEntry],
     CacheSet([ch \in Channels |-> NoEntry], CHANNEL_ID,
              FetchActive(W) \o FetchArchived(W), 0 - 1)}
    \cup {CacheSet([ch \in Channels |-> NoEntry], CHANNEL_ID,
                   FetchActive([W EXCEPT ![id].archived = FALSE]) \o FetchArchived(W),
                   0 - 1) : id \in {k \in 1..1 : W[k].archived}}

\* One thread-creation event, in any state the bot can be in between events.
Init ==
    /\ now = 0
    /\ live \in BOOLEAN
    /\ world \in Worlds
    /\ cache \in SeededCaches(world)
    /\ operations \in SeededOps(world)
    /\ queue = [id \in ThreadIds |-> <<>>]
    /\ timers = <<>>
    /\ handler = [h \in Handlers |-> IF h = 1 THEN IdleHandler
                                     ELSE [IdleHandler EXCEPT !.pc = "off"]]
    /\ budget = RETRY_MAX_ATTEMPTS
    /\ probe = NoProbe

\* ---------------------------------------------------------------- actions
\* when a thread is created: now, or, when the handler of an earlier event
\* has started, also a moment later
Moments(started) == IF started THEN {now, now + 1} ELSE {now}

\* a thread is created on the platform; its ThreadCreate event is on its way
CreateThread(parent) ==
    /\ \E h \in Handlers :
        /\ handler[h].pc = "idle"
        /\ \A g \in 1..(h - 1) : handler[g].pc # "idle"
        /\ Len(world) < MaxThreads
        /\ now' \in Moments(\E g \in Handlers : handler[g].pc \notin {"idle", "off"})
        /\ world' = Append(world, [parent |-> parent, createdAt |-> now',
                                   archived |-> FALSE, locked |-> FALSE])
        /\ handler' = [handler EXCEPT ![h] =
                          [IdleHandler EXCEPT !.pc = "event", !.trigger = Len(world) + 1]]
    /\ UNCHANGED <<live, cache, operations, queue, timers, budget, probe>>

\* what is kept of an invocation that has ended once a later one starts: its
\* locals are gone, and its record of calls is dropped
Ended(hr) ==
    [IdleHandler EXCEPT !.pc = "done", !.trigger = hr.trigger, !.outcome = hr.outcome]

\* mutant: the handler does not look at the parent
AnyParent(parentId) == TRUE

\* the handler's test of thread.parentId against CHANNEL_ID.toString()
Monitored(parentId) == parentId = CHANNEL_ID

\* client.on(Events.ThreadCreate, ...): the handler runs up to its first await
ThreadCreate(h) ==
    /\ handler[h].pc = "event"
    /\ handler' = [g \in Handlers |->
          IF g = h
          THEN IF ~Monitored(world[handler[h].trigger].parent)
               THEN [handler[h] EXCEPT !.pc = "done", !.outcome = "resolved"]
               ELSE StartAttempt(handler[h], 1)
          ELSE IF handler[g].pc = "done" THEN Ended(handler[g]) ELSE handler[g]]
    /\ UNCHANGED <<now, live, world, cache, operations, queue, timers, budget, probe>>

\* await client.channels.fetch(CHANNEL_ID) completes; getThreadsWithCache
\* reads the cache and either returns the cached list or issues both fetches
FetchChannelDone(h, ok) ==
    /\ handler[h].pc = "fetchChannel"
    /\ Outcome(ok) /\ Count(ok)
    /\ LET hr == Complete(handler[h], "fetchChannel", IF ok THEN "ok" ELSE "fail")
           got == CacheGet(cache, CHANNEL_ID, now)
       IN IF ~ok
          THEN /\ Become(h, [Machine(h) EXCEPT
                                !.hr = AttemptFailed(hr, ErrorOf(hr, "fetchChannel", 0), now)])
               /\ cache' = cache
          ELSE IF got.hit
          THEN /\ Become(h, Reconcile(world, [Machine(h) EXCEPT !.hr = hr], h, got.threads, now))
               /\ cache' = [got.cache EXCEPT
                               ![CHANNEL_ID].threads = AllThreadsAfter(world, got.threads)]
          ELSE /\ Become(h, [Machine(h) EXCEPT
                    !.hr = Also(Issue([hr EXCEPT !.fetched = TRUE], "fetchActive", 0),
                                "fetchArchived", 0)])
               /\ cache' = got.cache
    /\ UNCHANGED <<now, live, world, probe>>

\* await Promise.all([fetchActive(), fetchArchived()]) completes, both
\* requests answered from the same state of the platform: the list is cached
\* and returned. When one of the two fails (failed names it), Promise.all
\* rejects with its error.
FetchThreadsDone(h, failed) ==
    /\ handler[h].pc = "fetchActive"
    /\ Outcome(failed = "none") /\ Count(failed = "none")
    /\ LET ok == failed = "none"
           hr0 == Complete(handler[h], "fetchActive",
                           IF failed = "fetchActive" THEN "fail" ELSE "ok")
           hr == Complete(hr0, "fetchArchived",
                          IF failed = "fetchArchived" THEN "fail" ELSE "ok")
           allThreads == StoredList(FetchActive(world), FetchArchived(world))
       IN IF ~ok
          THEN /\ Become(h, [Machine(h) EXCEPT
                                !.hr = AttemptFailed(hr, ErrorOf(hr, failed, 0), now)])
               /\ cache' = cache
          ELSE /\ cache' = CacheSet(cache, CHANNEL_ID, AllThreadsAfter(world, allThreads), now)
               /\ Become(h, Reconcile(world, [Machine(h) EXCEPT !.hr = hr], h,
                                      allThreads, now))
    /\ UNCHANGED <<now, live, world, probe>>

\* the timer set by a suspended canProceed fires: the first resolver queued
\* for its thread is called with true, and that handler goes on
RateTimerFire ==
    /\ timers # <<>>
    /\ Head(timers).due <= now
    /\ LET cb == TimerCallback(queue, Head(timers).thread) IN
       /\ queue' = cb.q
       /\ timers' = Tail(timers)
       /\ handler' =
            IF cb.released = <<>> THEN handler
            ELSE LET h == cb.released[1] IN
                 [handler EXCEPT ![h] =
                     Admitted(world, Complete(handler[h], "canProceed", "ok"), now)]
    /\ UNCHANGED <<now, live, world, cache, operations, budget, probe>>

\* an awaited call of processThread completes. On failure the catch block of
\* processThread logs and rethrows, and nothing up to withRetry catches.
CallDone(h, op, stage, ok, W) ==
    /\ handler[h].pc = op
    /\ Outcome(ok) /\ Count(ok)
    /\ world' = W
    /\ LET hr == Complete(handler[h], op, IF ok THEN "ok" ELSE "fail") IN
       handler' = [handler EXCEPT ![h] =
          IF ok THEN ProcessThread(W, hr, stage + 1, now)
          ELSE ProcessThreadCatch(hr, ErrorOf(hr, op, CurThread(hr).id), now)]
    /\ UNCHANGED <<now, live, cache, operations, queue, timers, probe>>

\* await thread.setArchived(false)
SetArchivedDone(h, ok) ==
    CallDone(h, "setArchived", 1, ok,
             IF ok /\ handler[h].pc = "setArchived"
             THEN [world EXCEPT ![CurThread(handler[h]).id].archived = FALSE]
             ELSE world)

\* await thread.send(process.env.MESSAGE_CONTENT)
SendDone(h, ok) == CallDone(h, "send", 2, ok, world)

\* await thread.setLocked(true)
SetLockedDone(h, ok) ==
    CallDone(h, "setLocked", 3, ok,
             IF ok /\ handler[h].pc = "setLocked"
             THEN [world EXCEPT ![CurThread(handler[h]).id].locked = TRUE]
             ELSE world)

\* the pacing timer of processThreadsBatch fires: the loop goes on
OperationDelayDone(h) ==
    /\ handler[h].pc = "opDelay"
    /\ handler[h].wake <= now
    /\ Become(h, BatchLoop(world,
                           [Machine(h) EXCEPT !.hr = [handler[h] EXCEPT !.pos = @ + 1]],
                           h, now))
    /\ UNCHANGED <<now, live, world, cache, budget, probe>>

\* the backoff timer of withRetry fires: the next attempt starts
RetryDelayDone(h) ==
    /\ handler[h].pc = "retryDelay"
    /\ handler[h].wake <= now
    /\ handler' = [handler EXCEPT ![h] = StartAttempt(@, @.attempt + 1)]
    /\ UNCHANGED <<now, live, world, cache, operations, queue, timers, budget, probe>>

\* setInterval(() => this.cleanup(), duration) of ThreadCache
CacheSweep ==
    /\ cache' = CacheCleanup(cache, now)
    /\ cache' # cache
    /\ UNCHANGED <<now, live, world, operations, queue, timers, handler, budget, probe>>

\* setInterval(() => this.cleanup(), 60000) of RateLimit
RateSweep ==
    /\ operations' = RateCleanup(operations, now)
    /\ operations' # operations
    /\ UNCHANGED <<now, live, world, cache, queue, timers, handler, budget, probe>>

\* Time passes up to the next pending timer; when none is pending, up to the
\* moment the cached list is out of date.
Deadlines ==
    {timers[k].due : k \in 1..Len(timers)}
    \cup {handler[h].wake : h \in {g \in Handlers : handler[g].pc \in {"opDelay", "retryDelay"}}}
Tick ==
    /\ IF Deadlines # {}
       THEN /\ Min(Deadlines) > now
            /\ now' = Min(Deadlines)
       ELSE /\ cache[CHANNEL_ID].present
            /\ ~Expired(cache[CHANNEL_ID], now)
            /\ now' = cache[CHANNEL_ID].timestamp + CACHE_DURATION + 1
    /\ UNCHANGED <<live, world, cache, operations, queue, timers, handler, budget, probe>>

Next ==
    \/ \E parent \in Channels : CreateThread(parent)
    \/ \E h \in Handlers : ThreadCreate(h)
    \/ \E h \in Handlers, ok \in BOOLEAN : FetchChannelDone(h, ok)
    \/ \E h \in Handlers, failed \in {"none", "fetchActive", "fetchArchived"} :
          FetchThreadsDone(h, failed)
    \/ RateTimerFire
    \/ \E h \in Handlers, ok \in BOOLEAN : SetArchivedDone(h, ok)
    \/ \E h \in Handlers, ok \in BOOLEAN : SendDone(h, ok)
    \/ \E h \in Handlers, ok \in BOOLEAN : SetLockedDone(h, ok)
    \/ \E h \in Handlers : OperationDelayDone(h)
    \/ \E h \in Handlers : RetryDelayDone(h)
    \/ CacheSweep
    \/ RateSweep
    \/ Tick

Spec == Init /\ [][Next]_vars

\* what handler h awaits comes: the event is delivered, the external call
\* completes (with success or failure), the timer of a delay fires. A
\* handler awaits one thing at a time.
HandlerStep(h) ==
    \/ ThreadCreate(h)
    \/ \E ok \in BOOLEAN : FetchChannelDone(h, ok)
    \/ \E failed \in {"none", "fetchActive", "fetchArchived"} : FetchThreadsDone(h, failed)
    \/ \E ok \in BOOLEAN : SetArchivedDone(h, ok)
    \/ \E ok \in BOOLEAN : SendDone(h, ok)
    \/ \E ok \in BOOLEAN : SetLockedDone(h, ok)
    \/ OperationDelayDone(h)
    \/ RetryDelayDone(h)

\* HandlerStep(h) is enabled: handler h awaits an event, an external call or a
\* timer that is due. (A call of canProceed that is suspended awaits the
\* timer of the rate limiter, which RateTimerFire fires.)
Awaited(h) ==
    \/ handler[h].pc \in {"event", "fetchChannel", "fetchActive",
                          "setArchived", "send", "setLocked"}
    \/ handler[h].pc \in {"opDelay", "retryDelay"} /\ handler[h].wake <= now

\* What a handler awaits always comes, the timers of the rate limiter fire
\* and time passes: weak fairness of HandlerStep(h), with its enabling
\* condition written out as Awaited(h), of RateTimerFire and of Tick.
Completion ==
    /\ \A h \in Handlers : []<>(~Awaited(h)) \/ []<><<HandlerStep(h)>>_vars
    /\ WF_vars(RateTimerFire)
    /\ WF_vars(Tick)

\* One event with thread objects patched in place, without the two cleanup
\* timers: what they drop, get and canProceed leave out by themselves.
InitFair == Init /\ live

NextFair ==
    \/ \E parent \in Channels : CreateThread(parent)
    \/ \E h \in Handlers : HandlerStep(h)
    \/ RateTimerFire
    \/ Tick

SpecFair == InitFair /\ [][NextFair]_vars /\ Completion

\* Two thread-creation events on the monitored channel after the start of
\* the bot, with no external call failing: the cache and the rate limiter are
\* as constructed, the threads of the channel are unlocked, the oldest may
\* be archived, and the two handlers may interleave.
InitEvents ==
    /\ now = 0
    /\ live \in BOOLEAN
    /\ world \in {W \in Worlds : \A id \in 1..NumPre :
                                  ~W[id].locked /\ (W[id].archived => id = 1)}
    /\ cache = [ch \in Channels |-> NoEntry]
    /\ operations = [id \in ThreadIds |-> <<>>]
    /\ queue = [id \in ThreadIds |-> <<>>]
    /\ timers = <<>>
    /\ handler = [h \in Handlers |-> IdleHandler]
    /\ budget = 0
    /\ probe = NoProbe

NextEvents ==
    \/ CreateThread(CHANNEL_ID)
    \/ \E h \in Handlers : ThreadCreate(h)
    \/ \E h \in Handlers : FetchChannelDone(h, TRUE)
    \/ \E h \in Handlers : FetchThreadsDone(h, "none")
    \/ \E h \in Handlers : SetArchivedDone(h, TRUE)
    \/ \E h \in Handlers : SendDone(h, TRUE)
    \/ \E h \in Handlers : SetLockedDone(h, TRUE)
    \/ \E h \in Handlers : OperationDelayDone(h)
    \/ CacheSweep
    \/ RateSweep
    \/ Tick

SpecEvents == InitEvents /\ [][NextEvents]_vars


\* ---------------------------------------------------------------- ThreadCache on its own
\* the lists a caller stores
Lists == {<<>>, <<1>>, <<1, 2>>}

\* what the caller knows of a channel: its last call, when it last stored a
\* list, and what its last get returned
NoCalls == [op |-> "none", setAt |-> 0, getAt |-> 0, hit |-> FALSE, threads |-> <<>>]

\* the state that the parts left out of a component's specification keep
Unused ==
    /\ live = TRUE
    /\ world = <<>>
    /\ handler = [h \in Handlers |-> [IdleHandler EXCEPT !.pc = "off"]]
    /\ budget = 0

InitCache ==
    /\ now = 0
    /\ cache = [ch \in Channels |-> NoEntry]
    /\ operations = [id \in ThreadIds |-> <<>>]
    /\ queue = [id \in ThreadIds |-> <<>>]
    /\ timers = <<>>
    /\ probe = [unit |-> "ThreadCache", steps |-> 0, seen |-> [ch \in Channels |-> NoCalls]]
    /\ Unused

\* threadCache.set(channelId, threads)
Set(channelId, threads) ==
    /\ cache' = CacheSet(cache, channelId, threads, now)
    /\ probe' = [probe EXCEPT !.seen[channelId] =
                    [op |-> "set", setAt |-> now, getAt |-> 0, hit |-> FALSE,
                     threads |-> <<>>]]
    /\ UNCHANGED <<now, live, world, operations, queue, timers, handler, budget>>

\* threadCache.get(channelId)
Get(channelId) ==
    /\ LET r == CacheGet(cache, channelId, now) IN
       /\ cache' = r.cache
       /\ probe' = [probe EXCEPT !.seen[channelId] =
                       [@ EXCEPT !.op = "get", !.getAt = now, !.hit = r.hit,
                                 !.threads = r.threads]]
    /\ UNCHANGED <<now, live, world, operations, queue, timers, handler, budget>>

\* time passes between the calls: a millisecond, the cache duration, or a
\* millisecond less
CachePass(d) ==
    /\ probe.steps < MaxSteps
    /\ now' = now + d
    /\ probe' = [probe EXCEPT !.steps = @ + 1]
    /\ UNCHANGED <<live, world, cache, operations, queue, timers, handler, budget>>

NextCache ==
    \/ \E channelId \in Channels, threads \in Lists : Set(channelId, threads)
    \/ \E channelId \in Channels : Get(channelId)
    \/ \E d \in {1, CACHE_DURATION - 1, CACHE_DURATION} : CachePass(d)
    \/ CacheSweep

SpecCache == InitCache /\ [][NextCache]_vars

\* ---------------------------------------------------------------- RateLimit on its own
\* the thread id the callers ask for: the maps of RateLimit are keyed by
\* thread id, and a call reads and writes the entries of its own id only
AskedThreads == {1}

\* The callers know how many calls they may make (limit), how many times
\* they may pause (pauses), and the calls that resolved to true (resolved: their times; released: the suspended callers
\* released, in the order of their release).
InitRate ==
    /\ now = 0
    /\ cache = [ch \in Channels |-> NoEntry]
    /\ operations = [id \in ThreadIds |-> <<>>]
    /\ queue = [id \in ThreadIds |-> <<>>]
    /\ timers = <<>>
    /\ probe = [unit |-> "RateLimit", steps |-> 0, calls |-> 0, limit |-> MaxCalls,
                pauses |-> MaxSteps,
                resolved |-> [id \in AskedThreads |-> <<>>],
                released |-> [id \in AskedThreads |-> <<>>]]
    /\ Unused

\* a caller awaits rateLimit.canProceed(threadId); when it is not suspended
\* the promise resolves to true at once
Ask(threadId) ==
    /\ probe.calls < probe.limit
    /\ LET r == CanProceed(operations, queue, timers, threadId, probe.calls + 1, now) IN
       /\ operations' = r.ops
       /\ queue' = r.q
       /\ timers' = r.tm
       /\ probe' = [probe EXCEPT !.calls = @ + 1,
                                 !.resolved[threadId] =
                                     IF r.admit THEN Append(@, now) ELSE @]
    /\ UNCHANGED <<now, live, world, cache, handler, budget>>

\* the timer of a suspended call fires: the promise of the first suspended
\* caller of that thread resolves to true
Release ==
    /\ timers # <<>>
    /\ Head(timers).due <= now
    /\ LET threadId == Head(timers).thread
           cb == TimerCallback(queue, threadId) IN
       /\ queue' = cb.q
       /\ timers' = Tail(timers)
       /\ probe' = IF cb.released = <<>> THEN probe
                   ELSE [probe EXCEPT !.resolved[threadId] = Append(@, now),
                                      !.released[threadId] = @ \o cb.released]
    /\ UNCHANGED <<now, live, world, cache, operations, handler, budget>>

\* time passes between the calls, no further than the next timer
RatePass(d) ==
    /\ probe.steps < probe.pauses
    /\ \A k \in 1..Len(timers) : timers[k].due >= now + d
    /\ now' = now + d
    /\ probe' = [probe EXCEPT !.steps = @ + 1]
    /\ UNCHANGED <<live, world, cache, operations, queue, timers, handler, budget>>

\* the callers are idle until the next timer is due
RateWait ==
    /\ timers # <<>>
    /\ Head(timers).due > now
    /\ now' = Head(timers).due
    /\ UNCHANGED <<live, world, cache, operations, queue, timers, handler, budget, probe>>

NextRate ==
    \/ \E threadId \in DOMAIN probe.resolved : Ask(threadId)
    \/ Release
    \/ \E d \in {1, RATE_LIMIT_WINDOW - 1, RATE_LIMIT_WINDOW} : RatePass(d)
    \/ RateSweep

SpecRate == InitRate /\ [][NextRate]_vars

\* Callers of two thread ids. The records of a thread when they start: none,
\* or those of maxOperations calls that were admitted just now.
TwoThreads == {1, 2}
UsedUp == [k \in 1..RATE_LIMIT_MAX_OPS |-> 0]

InitCallers ==
    /\ now = 0
    /\ cache = [ch \in Channels |-> NoEntry]
    /\ \E seed \in [TwoThreads -> {<<>>, UsedUp}] :
        /\ operations = [id \in ThreadIds |-> IF id \in TwoThreads THEN seed[id] ELSE <<>>]
        /\ probe = [unit |-> "RateLimit", steps |-> 0, calls |-> 0, limit |-> MaxAsks,
                    pauses |-> MaxPauses,
                    resolved |-> seed,
                    released |-> [id \in TwoThreads |-> <<>>]]
    /\ queue = [id \in ThreadIds |-> <<>>]
    /\ timers = <<>>
    /\ Unused

\* the event loop runs a timer that is due, and time does not stand still
\* while a timer is pending
NextCallers == NextRate \/ RateWait

SpecCallers ==
    InitCallers /\ [][NextCallers]_vars /\ WF_vars(Release) /\ WF_vars(RateWait)

\* ---------------------------------------------------------------- withRetry on its own
\* what the operation may return, and the errors it may throw
Values == {"a", "b"}
Errors == {"fetchChannel", "setLocked"}

InitRetry ==
    /\ now = 0
    /\ cache = [ch \in Channels |-> NoEntry]
    /\ operations = [id \in ThreadIds |-> <<>>]
    /\ queue = [id \in ThreadIds |-> <<>>]
    /\ timers = <<>>
    /\ probe = [unit |-> "withRetry", pc |-> "idle", maxRetries |-> 0, attempt |-> 0,
                lastError |-> NoError, wake |-> 0, result |-> NotLogged,
                history |-> <<>>]
    /\ Unused

\* withRetry(operation, maxRetries) is called: attempt 1 starts
WithRetry(maxRetries) ==
    /\ probe.pc = "idle"
    /\ probe' = [probe EXCEPT !.pc = "running", !.maxRetries = maxRetries, !.attempt = 1]
    /\ UNCHANGED <<now, live, world, cache, operations, queue, timers, handler, budget>>

\* return await operation(): the operation returns
OperationReturns(v) ==
    /\ probe.pc = "running"
    /\ probe' = [probe EXCEPT !.pc = "returned", !.result = v,
                              !.history = Append(@, [ok |-> TRUE, value |-> v, at |-> now])]
    /\ UNCHANGED <<now, live, world, cache, operations, queue, timers, handler, budget>>

\* the operation throws: the catch block of withRetry
OperationThrows(e) ==
    /\ probe.pc = "running"
    /\ LET error == [op |-> e, thread |-> 0, attempt |-> probe.attempt]
           rc == RetryCatch(probe.attempt, probe.maxRetries, error) IN
       probe' = [probe EXCEPT !.lastError = rc.lastError,
                              !.pc = IF rc.throws THEN "thrown" ELSE "waiting",
                              !.result = IF rc.throws THEN rc.thrown ELSE @,
                              !.wake = now + rc.delay,
                              !.history = Append(@, [ok |-> FALSE, value |-> error, at |-> now])]
    /\ UNCHANGED <<now, live, world, cache, operations, queue, timers, handler, budget>>

\* the backoff delay passes: the next attempt starts
NextAttempt ==
    /\ probe.pc = "waiting"
    /\ now' = probe.wake
    /\ probe' = [probe EXCEPT !.pc = "running", !.attempt = @ + 1]
    /\ UNCHANGED <<live, world, cache, operations, queue, timers, handler, budget>>

NextRetry ==
    \/ \E maxRetries \in 1..MaxRetries : WithRetry(maxRetries)
    \/ \E v \in Values : OperationReturns(v)
    \/ \E e \in Errors : OperationThrows(e)
    \/ NextAttempt

SpecRetry == InitRetry /\ [][NextRetry]_vars

\* ---------------------------------------------------------------- start of the process
\* process.env: a variable is not set, or set to a string
Unset == "(not set)"
EnvValues == {Unset, "", "a", "b"}

\* mutant: the message text is not required
MissingButMessage(env) ==
    {varName \in {"DISCORD_TOKEN", "CHANNEL_ID"} : env[varName] \in {Unset, ""}}

\* validateConfig: requiredEnvVars.filter(varName => !process.env[varName])
requiredEnvVars == {"DISCORD_TOKEN", "CHANNEL_ID", "MESSAGE_CONTENT"}
MissingVars(env) == {varName \in requiredEnvVars : env[varName] \in {Unset, ""}}

InitStart ==
    /\ now = 0
    /\ cache = [ch \in Channels |-> NoEntry]
    /\ operations = [id \in ThreadIds |-> <<>>]
    /\ queue = [id \in ThreadIds |-> <<>>]
    /\ timers = <<>>
    /\ probe \in {[unit |-> "process", env |-> env, pc |-> "start", login |-> "none",
                   exit |-> "none"] : env \in [requiredEnvVars -> EnvValues]}
    /\ Unused

\* the try block at the end of the file: validateConfig throws and the catch
\* block calls process.exit(1), or client.login is called
Initialization ==
    /\ probe.pc = "start"
    /\ probe' = IF MissingVars(probe.env) # {}
                THEN [probe EXCEPT !.pc = "exited", !.exit = "1"]
                ELSE [probe EXCEPT !.pc = "login", !.login = "called"]
    /\ UNCHANGED <<now, live, world, cache, operations, queue, timers, handler, budget>>

\* the promise of client.login settles: .then logs, .catch calls process.exit(1)
LoginDone(ok) ==
    /\ probe.pc = "login"
    /\ probe' = IF ok THEN [probe EXCEPT !.pc = "ready", !.login = "ok"]
                ELSE [probe EXCEPT !.pc = "exited", !.login = "failed", !.exit = "1"]
    /\ UNCHANGED <<now, live, world, cache, operations, queue, timers, handler, budget>>

\* process.on('SIGINT' / 'SIGTERM'): client.destroy(), process.exit(0)
Shutdown ==
    /\ probe.pc \in {"login", "ready"}
    /\ probe' = [probe EXCEPT !.pc = "exited", !.exit = "0"]
    /\ UNCHANGED <<now, live, world, cache, operations, queue, timers, handler, budget>>

NextStart ==
    \/ Initialization
    \/ \E ok \in BOOLEAN : LoginDone(ok)
    \/ Shutdown

SpecStart == InitStart /\ [][NextStart]_vars

\* ================================================================ claims
ThreadOps == {"setArchived", "send", "setLocked"}

\* the calls of the current attempt of handler record hr whose op is in ops
AttemptCalls(hr, ops) ==
    {k \in 1..Len(hr.calls) : hr.calls[k].attempt = hr.attempt /\ hr.calls[k].op \in ops}

\* the current attempt of hr has ended
AttemptOver(hr) == hr.pc \in {"done", "retryDelay"}

\* the unlocked threads of the attempt's list other than the trigger, and
\* those of them with the latest creation time
Others(hr) == {k \in 1..Len(hr.threads) : hr.threads[k].id # hr.trigger}
LatestOthers(hr) ==
    {hr.threads[k].id : k \in {n \in Others(hr) :
        \A m \in Others(hr) : hr.threads[n].createdAt >= hr.threads[m].createdAt}}

\* C1 as stated: an attempt whose list has at least 2 unlocked threads issues
\* exactly one send, to the unlocked non-trigger thread created last.
C1_ExactlyOneSend ==
    \A h \in Handlers :
        LET hr == handler[h] IN
        (AttemptOver(hr) /\ hr.batch) =>
            /\ Cardinality(AttemptCalls(hr, {"send"})) = 1
            /\ \A k \in AttemptCalls(hr, {"send"}) : hr.calls[k].thread \in LatestOthers(hr)

\* C1 amended: such an attempt issues at most one send, always to the
\* unlocked non-trigger thread created last, and when the attempt has ended
\* exactly one, unless setArchived(false) failed on that thread (then the
\* attempt has issued nothing else on any thread).
C1_OneSendToLatest ==
    \A h \in Handlers :
        LET hr == handler[h]
            sends == AttemptCalls(hr, {"send"})
            issued == AttemptCalls(hr, ThreadOps)
            latest == LatestOthers(hr)
        IN
        hr.batch =>
            /\ Cardinality(sends) <= 1
            /\ \A k \in sends : hr.calls[k].thread \in latest
            /\ AttemptOver(hr) =>
                \/ Cardinality(sends) = 1
                \/ /\ Cardinality(issued) = 1
                   /\ \A k \in issued :
                        /\ hr.calls[k].op = "setArchived"
                        /\ hr.calls[k].res = "fail"
                        /\ hr.calls[k].thread \in latest

\* C1 witness: an attempt over a list with two unlocked threads besides the
\* trigger, the older of them first in the list, has ended with one send.
C1_Witness ==
    \E h \in Handlers :
        LET hr == handler[h] IN
        /\ hr.pc = "done" /\ hr.batch
        /\ Cardinality(Others(hr)) >= 2
        /\ hr.trigger \in Ids(hr.threads)
        /\ hr.allThreads[1].id \notin LatestOthers(hr)
        /\ Cardinality(AttemptCalls(hr, {"send"})) = 1
        /\ Cardinality(AttemptCalls(hr, {"setLocked"})) >= 2

\* C2: no run issues setArchived, send or setLocked on its trigger thread.
C2_TriggerUntouched ==
    \A h \in Handlers :
        \A k \in 1..Len(handler[h].calls) :
            handler[h].calls[k].op \in ThreadOps =>
                handler[h].calls[k].thread # handler[h].trigger

\* C2 witness: a run whose list holds the trigger has ended in its second
\* attempt, after a wait in the rate limiter, having locked another thread.
C2_Witness ==
    \E h \in Handlers :
        LET hr == handler[h] IN
        /\ hr.pc = "done" /\ hr.attempt = 2
        /\ hr.trigger \in Ids(hr.threads)
        /\ now >= RATE_LIMIT_WINDOW
        /\ \E k \in AttemptCalls(hr, {"setLocked"}) : hr.calls[k].res = "ok"

\* C3: an attempt whose list has fewer than 2 unlocked threads issues no
\* setArchived, send or setLocked and does not call canProceed.
C3_NothingBelowTwo ==
    \A h \in Handlers :
        LET hr == handler[h] IN
        (hr.reconciled /\ Len(hr.threads) < 2) =>
            /\ AttemptCalls(hr, ThreadOps \cup {"canProceed"}) = {}
            /\ ~hr.batch

\* C3 witness: an attempt has ended over a list of several threads of which
\* one, not the trigger, is unlocked.
C3_Witness ==
    \E h \in Handlers :
        LET hr == handler[h] IN
        /\ hr.pc = "done" /\ hr.reconciled
        /\ Len(hr.allThreads) >= 2
        /\ Len(hr.threads) = 1
        /\ hr.threads[1].id # hr.trigger

\* the calls of the current attempt on threads that failed
FailedCalls(hr) == {k \in AttemptCalls(hr, ThreadOps) : hr.calls[k].res = "fail"}

C10_HandlerResolves ==
    \A h \in Handlers :
        LET hr == handler[h] IN
        /\ hr.outcome # "rejected"
        /\ hr.pc = "done" => hr.outcome = "resolved"
        /\ (hr.pc = "done" /\ hr.lastError.attempt = RETRY_MAX_ATTEMPTS) =>
              hr.logged = ExhaustedError(RETRY_MAX_ATTEMPTS, hr.lastError)

\* C10 witness: a handler has ended after a failed fetch in its first attempt
\* and a failed call on a thread in its last.
C10_Witness ==
    \E h \in Handlers :
        LET hr == handler[h] IN
        /\ hr.pc = "done" /\ hr.outcome = "resolved"
        /\ hr.logged.exhausted
        /\ hr.lastError.op \in ThreadOps
        /\ hr.calls[1].res = "fail"

\* C4 as stated: when the handler of an event on the monitored channel has
\* ended and no call has failed, every thread of the channel created before
\* its trigger is locked and the trigger is unlocked.
C4_OlderLockedNewestOpen ==
    \A h \in Handlers :
        LET T == handler[h].trigger IN
        (handler[h].pc = "done" /\ world[T].parent = CHANNEL_ID) =>
            /\ ~world[T].locked
            /\ \A id \in 1..Len(world) :
                  (world[id].parent = CHANNEL_ID
                      /\ world[id].createdAt < world[T].createdAt) => world[id].locked

\* the calls of canProceed for thread id that resolved to true at a time in
\* the interval [from, from + timeWindow)
ResolvedWithin(id, from) ==
    {k \in 1..Len(probe.resolved[id]) :
        /\ from <= probe.resolved[id][k]
        /\ probe.resolved[id][k] < from + RATE_LIMIT_WINDOW}

\* C5 as stated: for every thread id, no interval of length timeWindow holds
\* more than maxOperations calls of canProceed resolving to true, released
\* callers included. (An interval that holds the most calls starts at one.)
C5_AtMostMaxPerWindow ==
    \A id \in AskedThreads :
        \A k \in 1..Len(probe.resolved[id]) :
            Cardinality(ResolvedWithin(id, probe.resolved[id][k])) <= RATE_LIMIT_MAX_OPS

\* C6: a get later than cacheDuration after the last set of its channel
\* returns null and leaves no entry, so that a get that follows is null too.
C6_LateGetAbsent ==
    \A ch \in Channels :
        LET seen == probe.seen[ch] IN
        (seen.op = "get" /\ seen.getAt - seen.setAt > CACHE_DURATION) =>
            /\ ~seen.hit
            /\ ~cache[ch].present
            /\ ~CacheGet(cache, ch, now).hit

\* C6 witness: a list was stored, and a get a millisecond later than the
\* duration after it has returned.
C6_Witness ==
    \E ch \in Channels :
        LET seen == probe.seen[ch] IN
        /\ seen.op = "get"
        /\ seen.getAt - seen.setAt = CACHE_DURATION + 1
        /\ now > seen.getAt

\* C7 as stated: a get that returns a list returns one stored less than
\* cacheDuration ago.
C7_HitIsYounger ==
    \A ch \in Channels :
        LET seen == probe.seen[ch] IN
        (seen.op = "get" /\ seen.hit) => seen.getAt - seen.setAt < CACHE_DURATION

\* C8: withRetry returns the result of the first attempt that succeeds,
\* after failures only and within maxRetries attempts; it throws only after
\* maxRetries failed attempts, and the error it throws carries the error of
\* the last of them.
C8_RetryOutcome ==
    LET n == Len(probe.history) IN
    /\ probe.pc \in {"running", "waiting"} =>
          /\ n < probe.maxRetries
          /\ \A k \in 1..n : ~probe.history[k].ok
    /\ probe.pc = "returned" =>
          /\ n <= probe.maxRetries
          /\ \A k \in 1..(n - 1) : ~probe.history[k].ok
          /\ probe.history[n].ok
          /\ probe.result = probe.history[n].value
    /\ probe.pc = "thrown" =>
          /\ n = probe.maxRetries
          /\ \A k \in 1..n : ~probe.history[k].ok
          /\ probe.result = [exhausted |-> TRUE, attempts |-> probe.maxRetries,
                             last |-> probe.history[n].value]

\* C8 witness: withRetry has thrown after several failed attempts whose
\* first and last errors differ.
C8_Witness ==
    /\ probe.pc = "thrown"
    /\ probe.maxRetries >= 3
    /\ probe.history[1].value.op # probe.history[probe.maxRetries].value.op

\* C11 as stated: when the handler of an event on the monitored channel has
\* ended, with withRetry having returned or thrown, the most-recent thread
\* id it recorded is its trigger.
C11_LastIsTrigger ==
    \A h \in Handlers :
        LET hr == handler[h] IN
        (hr.pc = "done" /\ world[hr.trigger].parent = CHANNEL_ID) =>
            hr.lastThreadId = hr.trigger

\* thread `th` of the list of the current attempt read as locked when the
\* attempt filtered its list: it reads as locked, and not because this
\* attempt locked it
LockedWhenFiltered(hr, th) ==
    /\ IF live THEN world[th.id].locked ELSE th.locked
    /\ \A k \in AttemptCalls(hr, {"setLocked"}) :
          ~(hr.calls[k].thread = th.id /\ hr.calls[k].res = "ok")

\* C12: an attempt on a list in which every thread but the trigger is locked
\* issues no setLocked and no send.
C12_LockedListNoCalls ==
    \A h \in Handlers :
        LET hr == handler[h] IN
        (/\ hr.reconciled
         /\ \A n \in 1..Len(hr.allThreads) :
               hr.allThreads[n].id # hr.trigger => LockedWhenFiltered(hr, hr.allThreads[n]))
        => AttemptCalls(hr, {"setLocked", "send"}) = {}

\* C12 witness: an attempt has ended over a list that holds the trigger and
\* two locked threads.
C12_Witness ==
    \E h \in Handlers :
        LET hr == handler[h] IN
        /\ hr.pc = "done" /\ hr.reconciled
        /\ hr.trigger \in Ids(hr.allThreads)
        /\ Len(hr.allThreads) >= 3
        /\ \A n \in 1..Len(hr.allThreads) :
              hr.allThreads[n].id # hr.trigger => LockedWhenFiltered(hr, hr.allThreads[n])

\* C13: once the process is past its initialization with a required variable
\* missing, it has exited with status 1 and client.login was never called;
\* client.login is called only with all three variables there.
C13_FailFast ==
    LET missing == \E v \in {"DISCORD_TOKEN", "CHANNEL_ID", "MESSAGE_CONTENT"} :
                       probe.env[v] \in {Unset, ""}
    IN /\ (missing /\ probe.pc # "start") =>
              (probe.pc = "exited" /\ probe.exit = "1" /\ probe.login = "none")
       /\ probe.login # "none" => ~missing

\* C13 witness: the process has exited with the message text alone missing.
C13_Witness ==
    /\ probe.pc = "exited"
    /\ probe.env["MESSAGE_CONTENT"] = Unset
    /\ probe.env["DISCORD_TOKEN"] = "a"
    /\ probe.env["CHANNEL_ID"] = "b"

\* C14: the step in which the handler takes an event whose parent is not the
\* monitored channel ends the handler, leaves the cache, the rate-limit
\* records, the wait queue and its timers and every thread as they were, and
\* issues no call.
C14_OtherParentIgnored ==
    [][\A h \in Handlers :
          (/\ handler[h].pc = "event"
           /\ world[handler[h].trigger].parent # CHANNEL_ID
           /\ handler'[h].pc # "event")
          => /\ UNCHANGED <<cache, operations, queue, timers, world>>
             /\ handler'[h].pc = "done"
             /\ handler'[h].calls = <<>>]_vars

\* C14 witness: a handler has ended for an event of another channel while
\* the cache held a list and the rate limiter held records.
C14_Witness ==
    \E h \in Handlers :
        /\ handler[h].pc = "done"
        /\ world[handler[h].trigger].parent = OTHER_CHANNEL
        /\ cache[CHANNEL_ID].present
        /\ operations[1] # <<>>
        /\ \E id \in 1..NumPre : ~world[id].locked

\* the timestamps of operations[id] that lie within the trailing timeWindow
InWindow(id) ==
    {k \in 1..Len(operations[id]) : now - operations[id][k] < RATE_LIMIT_WINDOW}

\* C15: for every thread id, at most maxOperations of the timestamps stored
\* in operations lie within the trailing timeWindow.
C15_StoredWithinMax ==
    \A id \in ThreadIds : Cardinality(InWindow(id)) <= RATE_LIMIT_MAX_OPS

\* C15 witness: maxOperations timestamps of a thread lie within the window
\* while a caller is suspended, after earlier timestamps have left it.
C15_Witness ==
    \E id \in DOMAIN probe.resolved :
        /\ Cardinality(InWindow(id)) = RATE_LIMIT_MAX_OPS
        /\ queue[id] # <<>>
        /\ Len(probe.resolved[id]) > RATE_LIMIT_MAX_OPS

\* C16: the suspended callers of a thread id are released in the order in
\* which they were queued (callers are numbered in the order of their
\* calls): the released callers are in increasing order, and all of them
\* were queued before those still suspended.
C16_ReleasedInOrder ==
    \A id \in DOMAIN probe.released :
        LET rel == probe.released[id] IN
        /\ \A j, k \in 1..Len(rel) : j < k => rel[j] < rel[k]
        /\ \A j \in 1..Len(rel), k \in 1..Len(queue[id]) : rel[j] < queue[id][k]

\* C16 witness: two suspended callers of a thread were released while a
\* third is still suspended.
C16_Witness ==
    \E id \in DOMAIN probe.released :
        /\ Len(probe.released[id]) >= 2
        /\ queue[id] # <<>>

\* how many times `t` occurs in the sequence of times
Times(seq, t) == Cardinality({k \in 1..Len(seq) : seq[k] = t})

\* C17 as stated: every call that resolved to true within the trailing
\* timeWindow, at once or after waiting, has a timestamp of its own in
\* operations.
C17_ResolvedIsRecorded ==
    \A id \in DOMAIN probe.resolved :
        \A k \in 1..Len(probe.resolved[id]) :
            LET t == probe.resolved[id][k] IN
            now - t < RATE_LIMIT_WINDOW =>
                Times(operations[id], t) >= Times(probe.resolved[id], t)

\* the pending timers of thread id
TimersOf(id) == {k \in 1..Len(timers) : timers[k].thread = id}

\* C18: for every thread id there are as many pending timers as suspended
\* callers and no caller is released twice or while it stays queued; and in
\* the end no caller is left suspended.
C18_EveryCallerReleased ==
    /\ [](\A id \in DOMAIN probe.released :
            LET rel == probe.released[id] IN
            /\ Cardinality(TimersOf(id)) = Len(queue[id])
            /\ \A j, k \in 1..Len(rel) : j # k => rel[j] # rel[k]
            /\ \A j \in 1..Len(rel), k \in 1..Len(queue[id]) : rel[j] # queue[id][k])
    /\ <>[](\A id \in DOMAIN probe.released : queue[id] = <<>>)

\* C18 witness: callers of two thread ids were suspended at the same time,
\* and all of them have been released.
C18_Witness ==
    /\ \A id \in TwoThreads :
          /\ id \in DOMAIN probe.released
          /\ probe.released[id] # <<>>
          /\ queue[id] = <<>>
    /\ \E id \in TwoThreads : Len(probe.released[id]) >= 2

\* ---------------------------------------------------------------- C19
\* the position of a call in processThread
OpRank(op) == CASE op = "setArchived" -> 1 [] op = "send" -> 2 [] op = "setLocked" -> 3

\* the entry of thread `id` that processThreadsBatch visits first, in the
\* order `order` of its visits
FirstEntry(order, id) == order[Min({k \in 1..Len(order) : order[k].id = id})]

\* the designated thread: the first thread of the order that is not the
\* trigger (0 when there is none)
Designated(order, newThreadId) ==
    LET rest == {k \in 1..Len(order) : order[k].id # newThreadId}
    IN IF rest = {} THEN 0 ELSE order[Min(rest)].id

\* C19: within an attempt the calls on one thread are issued in the order
\* setArchived(false), send, setLocked(true), each after the one before it
\* succeeded; setArchived only on a thread read as archived, send only on the
\* designated thread, setLocked only on a thread read as unlocked; send and
\* setLocked never on a thread read as archived unless setArchived(false)
\* succeeded on it before in the same attempt (a patched thread object reads
\* the platform's flag, which only that call clears, so the thread is then
\* not archived); and on the designated thread setLocked comes after send.
C19_CallOrder ==
    \A h \in Handlers :
        LET hr == handler[h]
            issued == AttemptCalls(hr, ThreadOps)
            order == BatchOrder(hr.threads)
            designated == Designated(order, hr.trigger)
        IN
        \A k \in issued :
            LET c == hr.calls[k]
                before == {j \in issued : j < k /\ hr.calls[j].thread = c.thread}
                entry == FirstEntry(order, c.thread)
            IN /\ \A j \in before : /\ OpRank(hr.calls[j].op) < OpRank(c.op)
                                    /\ hr.calls[j].res = "ok"
               /\ c.op = "setArchived" =>
                    IF live THEN c.res = "ok" \/ world[c.thread].archived
                    ELSE entry.archived
               /\ c.op = "send" => c.thread = designated
               /\ c.op = "setLocked" =>
                    IF live THEN c.res = "ok" \/ ~world[c.thread].locked
                    ELSE ~entry.locked
               /\ c.op \in {"send", "setLocked"} =>
                    IF live THEN ~world[c.thread].archived
                    ELSE entry.archived =>
                            \E j \in before : hr.calls[j].op = "setArchived"
               /\ (c.op = "setLocked" /\ c.thread = designated) =>
                    \E j \in before : hr.calls[j].op = "send"

\* C19 witness: one attempt has unarchived, messaged and locked a thread
\* whose entry in the list says archived.
C19_Witness ==
    \E h \in Handlers :
        LET hr == handler[h] IN
        \E i, j, k \in AttemptCalls(hr, ThreadOps) :
            /\ i < j /\ j < k
            /\ hr.calls[i].thread = hr.calls[k].thread
            /\ hr.calls[j].thread = hr.calls[k].thread
            /\ hr.calls[i].op = "setArchived" /\ hr.calls[j].op = "send"
            /\ hr.calls[k].op = "setLocked" /\ hr.calls[k].res = "ok"
            /\ FirstEntry(BatchOrder(hr.threads), hr.calls[k].thread).archived

\* ---------------------------------------------------------------- C20
\* the calls of hr that passed a thread to processThread: canProceed
\* resolved true
Passed(hr) ==
    {k \in 1..Len(hr.calls) : hr.calls[k].op = "canProceed" /\ hr.calls[k].res = "ok"}

\* C20 as stated: over all the attempts of one event no thread id is passed
\* to processThread more than once.
C20_OncePerEvent ==
    \A h \in Handlers :
        LET hr == handler[h] IN
        \A j, k \in Passed(hr) : hr.calls[j].thread = hr.calls[k].thread => j = k

\* C20 amended: within one attempt no thread id is passed to processThread
\* more than once, duplicate entries of the list included.
C20_OncePerAttempt ==
    \A h \in Handlers :
        LET hr == handler[h] IN
        \A j, k \in Passed(hr) :
            (hr.calls[j].thread = hr.calls[k].thread
                /\ hr.calls[j].attempt = hr.calls[k].attempt) => j = k

\* C20 witness: an attempt over a list that holds a thread twice has
\* processed that thread and come to the end of the list.
C20_Witness ==
    \E h \in Handlers :
        LET hr == handler[h] IN
        /\ hr.pc = "done" /\ hr.batch
        /\ \A k \in AttemptCalls(hr, ThreadOps) : hr.calls[k].res = "ok"
        /\ \E n, m \in 1..Len(hr.threads) :
            /\ n < m /\ hr.threads[n].id = hr.threads[m].id
            /\ \E k \in Passed(hr) : /\ hr.calls[k].thread = hr.threads[n].id
                                      /\ hr.calls[k].attempt = hr.attempt

\* ---------------------------------------------------------------- C21
Enumerations == {"fetchActive", "fetchArchived"}

\* C21: the step in which getThreadsWithCache reads the cache either returns
\* the cached list, leaves the cache as it was and issues no enumeration, or
\* (miss) issues both enumerations and leaves no entry for the channel; the
\* step in which both enumerations are answered stores active ++ archived
\* with the current time and returns that list; the step in which one of
\* them fails leaves the channel without an entry.
C21_HitOrEnumerate ==
    [][\A h \in Handlers :
          LET hr == handler[h]
              after == handler'[h]
          IN /\ (hr.pc = "fetchChannel" /\ after.reconciled) =>
                    /\ cache[CHANNEL_ID].present
                    /\ after.allThreads = cache[CHANNEL_ID].threads
                    /\ cache' = cache
                    /\ AttemptCalls(after, Enumerations) = {}
             /\ (hr.pc = "fetchChannel" /\ after.pc = "fetchActive") =>
                    /\ ~cache'[CHANNEL_ID].present
                    /\ {after.calls[k].op : k \in AttemptCalls(after, Enumerations)}
                            = Enumerations
                    /\ Cardinality(AttemptCalls(after, Enumerations)) = 2
             /\ (hr.pc = "fetchActive" /\ after.reconciled) =>
                    /\ after.allThreads = FetchActive(world) \o FetchArchived(world)
                    /\ cache'[CHANNEL_ID] = [present |-> TRUE, timestamp |-> now,
                                             threads |-> after.allThreads]
                    /\ \A k \in AttemptCalls(after, Enumerations) :
                            after.calls[k].res = "ok"
             /\ (hr.pc = "fetchActive" /\ after.pc # "fetchActive" /\ ~after.reconciled) =>
                    /\ ~cache'[CHANNEL_ID].present
                    /\ \E k \in AttemptCalls(after, Enumerations) :
                            after.calls[k].res = "fail"]_vars

\* C21 witness: the first attempt missed the cache and enumerated, then failed
\* later on; the second attempt has been given the list the first stored.
C21_Witness ==
    \E h \in Handlers :
        LET hr == handler[h] IN
        /\ hr.attempt = 2 /\ hr.reconciled /\ ~hr.fetched
        /\ hr.allThreads # <<>>
        /\ \E k \in 1..Len(hr.calls) :
            /\ hr.calls[k].attempt = 1 /\ hr.calls[k].op = "fetchArchived"
            /\ hr.calls[k].res = "ok"

\* ---------------------------------------------------------------- C22
\* C22: withRetry runs the operation at most maxRetries times and not again
\* after it returned; attempt 1 runs at the time of the call, attempt k + 1
\* runs 1000, 2000, 4000 ms after the failure of attempt k for k = 1, 2, 3
\* and 4000 ms after it for every later k, so that no wait is shorter than the
\* one before it; and withRetry throws at the time its last attempt failed.
C22_AttemptsAndWaits ==
    LET n == Len(probe.history)
        wait(k) == probe.history[k + 1].at - probe.history[k].at
    IN /\ n <= probe.maxRetries
       /\ \A k \in 1..(n - 1) : ~probe.history[k].ok
       /\ n >= 1 => probe.history[1].at = 0
       /\ \A k \in 1..(n - 1) :
            /\ wait(k) = CASE k = 1 -> 1000 [] k = 2 -> 2000 [] OTHER -> 4000
            /\ k > 1 => wait(k - 1) <= wait(k)
       /\ probe.pc \in {"thrown", "returned"} => now = probe.history[n].at

\* C22 witness: withRetry has thrown after five attempts, the last of them
\* one wait beyond the schedule's length.
C22_Witness ==
    /\ probe.pc = "thrown"
    /\ Len(probe.history) = 5
    /\ probe.history[5].at = 1000 + 2000 + 4000 + 4000

\* ---------------------------------------------------------------- filter and sort on their own
\* the lists a cache may hold: up to MaxList thread objects, creation times
\* that may be equal, ids that may repeat
MaxList == 3
ListIds == 1..3
TieTimes == {0, 1}
Entries ==
    {[id |-> id, createdAt |-> c, archived |-> FALSE, locked |-> lk] :
        id \in ListIds, c \in TieTimes, lk \in BOOLEAN}
Snapshots == UNION {[1..n -> Entries] : n \in 0..MaxList}

\* the number of reconciliations of one snapshot
MaxRuns == 2

\* the thread objects are read as the list holds them
InitSort ==
    /\ now = 0
    /\ live = FALSE
    /\ world = <<>>
    /\ cache = [ch \in Channels |-> NoEntry]
    /\ operations = [id \in ThreadIds |-> <<>>]
    /\ queue = [id \in ThreadIds |-> <<>>]
    /\ timers = <<>>
    /\ handler = [h \in Handlers |-> [IdleHandler EXCEPT !.pc = "off"]]
    /\ budget = 0
    /\ \E snapshot \in Snapshots, newThreadId \in ListIds :
        probe = [unit |-> "sort", snapshot |-> snapshot, cached |-> snapshot,
                 newThreadId |-> newThreadId, runs |-> <<>>]

\* the handler's operation from allThreads to the call of processThreadsBatch,
\* on the list the cache holds
FilterAndSort ==
    /\ Len(probe.runs) < MaxRuns
    /\ LET allThreads == probe.cached
           unlockedThreads == UnlockedThreads(world, allThreads)
       IN probe' = [probe EXCEPT
            !.cached = AllThreadsAfter(world, allThreads),
            !.runs = Append(@, [given |-> allThreads,
                                order |-> BatchOrder(unlockedThreads),
                                designated |-> Designated(BatchOrder(unlockedThreads),
                                                           probe.newThreadId)])]
    /\ UNCHANGED <<now, live, world, cache, operations, queue, timers, handler, budget>>

NextSort == FilterAndSort

SpecSort == InitSort /\ [][NextSort]_vars

\* ---------------------------------------------------------------- C23
\* the unlocked entries of a list, in the order of the list
UnlockedOf(list) == SelectSeq(list, LAMBDA th : ~th.locked)

\* the place of the n-th entry of u when u is put newest first and entries
\* of equal creation time keep their order
PlaceOf(u, n) ==
    1 + Cardinality({m \in 1..Len(u) :
                        \/ u[m].createdAt > u[n].createdAt
                        \/ u[m].createdAt = u[n].createdAt /\ m < n})

\* C23: every reconciliation of a snapshot is given the snapshot as it was
\* stored, puts its unlocked entries newest first with entries of equal
\* creation time in the order of the snapshot, and designates the first of
\* them that is not the trigger; two reconciliations of the snapshot give
\* the same order and the same designated thread; the list the cache holds
\* stays the snapshot.
C23_SameOrderEachTime ==
    /\ probe.cached = probe.snapshot
    /\ \A r \in 1..Len(probe.runs) :
        LET run == probe.runs[r]
            u == UnlockedOf(probe.snapshot)
            others == {n \in 1..Len(run.order) : run.order[n].id # probe.newThreadId}
        IN /\ run.given = probe.snapshot
           /\ Len(run.order) = Len(u)
           /\ \A n \in 1..Len(u) : run.order[PlaceOf(u, n)] = u[n]
           /\ run.designated = IF others = {} THEN 0 ELSE run.order[Min(others)].id
           /\ run.order = probe.runs[1].order
           /\ run.designated = probe.runs[1].designated

\* C23 witness: a snapshot not in sorted order, with two unlocked threads of
\* equal creation time besides the trigger, has been reconciled twice.
C23_Witness ==
    /\ Len(probe.runs) = 2
    /\ Len(probe.snapshot) = 3
    /\ probe.snapshot[1].createdAt < probe.snapshot[2].createdAt
    /\ probe.snapshot[3].createdAt = probe.snapshot[2].createdAt
    /\ probe.snapshot[2].id # probe.snapshot[3].id
    /\ \A n \in 2..3 : /\ ~probe.snapshot[n].locked
                       /\ probe.snapshot[n].id # probe.newThreadId
    /\ probe.runs[2].designated = probe.snapshot[2].id

\* ---------------------------------------------------------------- getThreadsWithCache, two callers
\* Two handlers call getThreadsWithCache for the monitored channel. The two
\* requests of a caller are answered one by one, in any order, while the
\* platform archives and unarchives threads; the code after Promise.all runs
\* when both answers are in.
MaxChanges == 2
NoList == [pc |-> "idle", hit |-> FALSE, gotActive |-> FALSE, activeThreads |-> <<>>,
           gotArchived |-> FALSE, archivedThreads |-> <<>>, returned |-> <<>>]

InitFetch ==
    /\ now = 0
    /\ live = TRUE
    /\ world \in {[id \in 1..2 |-> [parent |-> CHANNEL_ID, createdAt |-> id - 3,
                                    archived |-> ar[id], locked |-> FALSE]] :
                    ar \in [1..2 -> BOOLEAN]}
    /\ cache = [ch \in Channels |-> NoEntry]
    /\ operations = [id \in ThreadIds |-> <<>>]
    /\ queue = [id \in ThreadIds |-> <<>>]
    /\ timers = <<>>
    /\ handler = [h \in Handlers |-> [IdleHandler EXCEPT !.pc = "off"]]
    /\ budget = 0
    /\ probe = [unit |-> "fetch", caller |-> [h \in Handlers |-> NoList],
                changes |-> 0, read |-> [hit |-> FALSE, threads |-> <<>>]]

\* getThreadsWithCache(channel) is called by h: the cached list is returned,
\* or both requests are sent
GetThreads(h) ==
    /\ probe.caller[h].pc = "idle"
    /\ LET got == CacheGet(cache, CHANNEL_ID, now) IN
       /\ cache' = got.cache
       /\ probe' = [probe EXCEPT !.caller[h] =
            IF got.hit THEN [@ EXCEPT !.pc = "done", !.hit = TRUE, !.returned = got.threads]
            ELSE [@ EXCEPT !.pc = "fetching"]]
    /\ UNCHANGED <<now, live, world, operations, queue, timers, handler, budget>>

\* what h does once an answer is in: when it is the second one, Promise.all
\* resolves, the list is stored and returned
Answered(h, c) ==
    IF c.gotActive /\ c.gotArchived
    THEN LET allThreads == StoredList(c.activeThreads, c.archivedThreads) IN
         /\ cache' = CacheSet(cache, CHANNEL_ID, allThreads, now)
         /\ probe' = [probe EXCEPT !.caller[h] =
                         [c EXCEPT !.pc = "done", !.returned = allThreads]]
    ELSE /\ cache' = cache
         /\ probe' = [probe EXCEPT !.caller[h] = c]

\* channel.threads.fetchActive() of h is answered
ActiveAnswered(h) ==
    /\ probe.caller[h].pc = "fetching"
    /\ ~probe.caller[h].gotActive
    /\ Answered(h, [probe.caller[h] EXCEPT !.gotActive = TRUE,
                                           !.activeThreads = FetchActive(world)])
    /\ UNCHANGED <<now, live, world, operations, queue, timers, handler, budget>>

\* channel.threads.fetchArchived() of h is answered
ArchivedAnswered(h) ==
    /\ probe.caller[h].pc = "fetching"
    /\ ~probe.caller[h].gotArchived
    /\ Answered(h, [probe.caller[h] EXCEPT !.gotArchived = TRUE,
                                           !.archivedThreads = FetchArchived(world)])
    /\ UNCHANGED <<now, live, world, operations, queue, timers, handler, budget>>

\* the platform archives or unarchives a thread
PlatformChange(id) ==
    /\ probe.changes < MaxChanges
    /\ world' = [world EXCEPT ![id].archived = ~@]
    /\ probe' = [probe EXCEPT !.changes = @ + 1]
    /\ UNCHANGED <<now, live, cache, operations, queue, timers, handler, budget>>

\* a later handler reads the cache: threadCache.get(channel.id)
LaterRead ==
    /\ \A h \in Handlers : probe.caller[h].pc = "done"
    /\ LET got == CacheGet(cache, CHANNEL_ID, now) IN
       /\ cache' = got.cache
       /\ probe' = [probe EXCEPT !.read = [hit |-> got.hit, threads |-> got.threads]]
    /\ UNCHANGED <<now, live, world, operations, queue, timers, handler, budget>>

\* time passes until the stored list is out of date
FetchPass ==
    /\ now = 0
    /\ now' = CACHE_DURATION + 1
    /\ UNCHANGED <<live, world, cache, operations, queue, timers, handler, budget, probe>>

NextFetch ==
    \/ \E h \in Handlers : GetThreads(h)
    \/ \E h \in Handlers : ActiveAnswered(h)
    \/ \E h \in Handlers : ArchivedAnswered(h)
    \/ \E id \in 1..2 : PlatformChange(id)
    \/ LaterRead
    \/ FetchPass

SpecFetch == InitFetch /\ [][NextFetch]_vars

\* ---------------------------------------------------------------- C24
\* the complete lists of the callers that enumerated: the active part of a
\* caller followed by its own archived part
CompleteLists ==
    {probe.caller[h].activeThreads \o probe.caller[h].archivedThreads :
        h \in {g \in Handlers : /\ probe.caller[g].pc = "done"
                                /\ ~probe.caller[g].hit}}

\* C24: the list the cache holds, the list a caller was given from the cache
\* and the list a later read returns are each the complete list of one caller
\* that enumerated.
C24_WholeListOfOne ==
    /\ cache[CHANNEL_ID].present => cache[CHANNEL_ID].threads \in CompleteLists
    /\ probe.read.hit => probe.read.threads \in CompleteLists
    /\ \A h \in Handlers :
        (probe.caller[h].pc = "done" /\ probe.caller[h].hit) =>
            probe.caller[h].returned \in CompleteLists

\* C24 witness: both callers missed the cache and enumerated, their lists
\* differ, one of them holds a thread in both parts, and a later read has
\* returned a list.
C24_Witness ==
    /\ \A h \in Handlers : probe.caller[h].pc = "done" /\ ~probe.caller[h].hit
    /\ probe.caller[1].returned # probe.caller[2].returned
    /\ \E h \in Handlers :
        Ids(probe.caller[h].activeThreads) \cap Ids(probe.caller[h].archivedThreads) # {}
    /\ probe.read.hit

\* ---------------------------------------------------------------- C25
\* C25: a handler that has been given an event ends, whatever calls fail and
\* however long it waits for the rate limiter.
C25_HandlerEnds ==
    \A h \in Handlers :
        (handler[h].pc \notin {"off", "idle", "done"}) ~> (handler[h].pc = "done")

\* C25 witness: a handler has ended in its second attempt after its call of
\* canProceed for thread 1 was suspended: the record of thread 1 is still the
\* full one left by earlier events.
C25_Witness ==
    \E h \in Handlers :
        LET hr == handler[h] IN
        /\ hr.pc = "done" /\ hr.attempt = 2 /\ hr.batch
        /\ operations[1] = [n \in 1..RATE_LIMIT_MAX_OPS |-> 0 - 1]
        /\ \E k \in AttemptCalls(hr, {"canProceed"}) :
            hr.calls[k].thread = 1 /\ hr.calls[k].res = "ok"

\* ---------------------------------------------------------------- C27
\* C27: within an attempt setLocked is issued on the designated thread only
\* after send succeeded on it in that attempt; once setArchived(false) or send
\* has failed on the designated thread, that call is the last one of the
\* attempt on any thread; and send is issued on no thread but the designated.
C27_LockAfterMessage ==
    \A h \in Handlers :
        LET hr == handler[h]
            issued == AttemptCalls(hr, ThreadOps)
            designated == Designated(BatchOrder(hr.threads), hr.trigger)
        IN
        \A k \in issued :
            LET c == hr.calls[k] IN
            /\ c.op = "send" => c.thread = designated
            /\ (c.op = "setLocked" /\ c.thread = designated) =>
                    \E j \in issued :
                        /\ j < k /\ hr.calls[j].thread = designated
                        /\ hr.calls[j].op = "send" /\ hr.calls[j].res = "ok"
            /\ (c.thread = designated /\ c.res = "fail" /\ c.op # "setLocked") =>
                    \A j \in issued : j <= k

\* C27 witness: an attempt over a list with another unlocked thread after the
\* designated one has ended with the failure of send on the designated thread.
C27_Witness ==
    \E h \in Handlers :
        LET hr == handler[h]
            designated == Designated(BatchOrder(hr.threads), hr.trigger)
        IN /\ AttemptOver(hr) /\ hr.batch
           /\ \E n \in Others(hr) : hr.threads[n].id # designated
           /\ \E k \in AttemptCalls(hr, {"send"}) :
                hr.calls[k].thread = designated /\ hr.calls[k].res = "fail"

\* ---------------------------------------------------------------- C26
\* C26 as stated: the thread of the monitored channel created last is never
\* locked, and no handler has issued send or setLocked on it.
C26_NewestUntouched ==
    LET newest == Len(world) IN
    (newest > NumPre /\ world[newest].parent = CHANNEL_ID) =>
        /\ ~world[newest].locked
        /\ \A h \in Handlers : \A k \in 1..Len(handler[h].calls) :
              handler[h].calls[k].op \in {"send", "setLocked"} =>
                  handler[h].calls[k].thread # newest

====
